---------------------------- MODULE Spec2Model ----------------------------
(***************************************************************************)
(* benchman (src/src/lib.rs): a RAII stopwatch.  BenchMan owns a session   *)
(* label and an Arc<RwLock<ResultSet>>; get_stopwatch reserves the tag and *)
(* hands out a Stopwatch whose Drop appends the elapsed Duration to the    *)
(* ResultSet; Display and slice read the ResultSet under the read lock.    *)
(*                                                                         *)
(* A Duration is modelled as its whole number of nanoseconds.              *)
(***************************************************************************)
EXTENDS Integers, Sequences, FiniteSets, TLC

(***************************************************************************)
(* Bounds of the model.                                                    *)
(***************************************************************************)
NThreads == 2        \* threads that may hold a clone of the BenchMan
MaxSw == 2           \* stopwatches one thread creates
MaxDur == 1          \* largest elapsed time a stopwatch measures
MaxReq == 2          \* length of the tag list handed to slice
MaxViews == 1        \* BenchManSlice values alive at a time
MaxLen == 3          \* BenchResult lists enumerated exhaustively
MaxStatDur == 2      \* largest duration in the exhaustive lists
MaxLong == 26        \* longest BenchResult list of the long family
NLive == 3           \* threads of the program whose calls may wait for the lock
MaxLiveSw == 1       \* stopwatches one of those threads creates
MaxLiveDur == 0      \* largest elapsed time one of those stopwatches measures

Threads == 1..NThreads
Tags == {"inner", "outer"}
Durations == 0..MaxDur
StatDurations == 0..MaxStatDur
Label == "nested"

Some(x) == <<x>>
None == <<>>

Range(s) == {s[i] : i \in 1..Len(s)}

RECURSIVE SeqSum(_)
SeqSum(s) == IF s = <<>> THEN 0 ELSE s[1] + SeqSum(Tail(s))

(***************************************************************************)
(* IEEE-754 binary64 arithmetic, as far as percentile uses it.  A positive *)
(* double is [m2, m1, m0, e]: its 53-bit significand is                    *)
(* m2 * 2^36 + m1 * 2^18 + m0 with 2^16 <= m2 < 2^17 and m1, m0 < 2^18,    *)
(* and its value is the significand times 2^e.  Every intermediate stays   *)
(* below 2^31 for operands below 2^13.                                     *)
(***************************************************************************)
RECURSIVE Pow2(_)
Pow2(k) == IF k = 0 THEN 1 ELSE 2 * Pow2(k - 1)

Limb == Pow2(18)
TopLimb == Pow2(17)

\* The smallest k with a * 2^k >= d.
RECURSIVE ShiftUp(_, _)
ShiftUp(a, d) == IF a >= d THEN 0 ELSE 1 + ShiftUp(2 * a, d)

\* The number of binary digits of k >= 1.
RECURSIVE BitLen(_)
BitLen(k) == IF k <= 1 THEN 1 ELSE 1 + BitLen(k \div 2)

\* Round to nearest, ties to even: the 53-bit significand [m2, m1, m0] with
\* exponent e, followed by a guard bit and by more non-zero bits iff sticky.
F64Round(m2, m1, m0, e, guard, sticky) ==
    LET up == guard = 1 /\ (sticky \/ m0 % 2 = 1)
        s0 == m0 + (IF up THEN 1 ELSE 0)
        s1 == m1 + s0 \div Limb
        s2 == m2 + s1 \div Limb
    IN  IF s2 = TopLimb
        THEN [m2 |-> TopLimb \div 2, m1 |-> 0, m0 |-> 0, e |-> e + 1]
        ELSE [m2 |-> s2, m1 |-> s1 % Limb, m0 |-> s0 % Limb, e |-> e]

\* a as f64 / d as f64 for integers 1 <= a <= d < 2^7: the correctly rounded
\* quotient, by long division of a * 2^k in [d, 2d) to 54 bits and a remainder.
F64Div(a, d) ==
    LET k == ShiftUp(a, d)
        n2 == a * Pow2(k) * TopLimb
        q2 == n2 \div d
        n1 == (n2 % d) * Limb
        q1 == n1 \div d
        n0 == (n1 % d) * Limb
        q0 == n0 \div d
    IN  F64Round(q2 \div 2,
                 q1 \div 2 + (q2 % 2) * TopLimb,
                 q0 \div 2 + (q1 % 2) * TopLimb,
                 0 - k - 52, q0 % 2, n0 % d # 0)

\* x * (k as f64) for a double x and an integer 1 <= k < 2^13: the correctly
\* rounded product (the exact product has s bits more than 53, s < 18).
F64MulInt(x, k) ==
    LET t0 == x.m0 * k
        t1 == x.m1 * k + t0 \div Limb
        t2 == x.m2 * k + t1 \div Limb
        p0 == t0 % Limb
        p1 == t1 % Limb
        s == BitLen(t2) - 17
        lo == Pow2(s)
        hi == Limb \div lo
    IN  IF s = 0 THEN [m2 |-> t2, m1 |-> p1, m0 |-> p0, e |-> x.e]
        ELSE F64Round(t2 \div lo,
                      p1 \div lo + (t2 % lo) * hi,
                      p0 \div lo + (p1 % lo) * hi,
                      x.e + s, (p0 \div (lo \div 2)) % 2, p0 % (lo \div 2) # 0)

\* f64::ceil(x) as usize, for a double 0 < x < 2^13.
F64CeilUsize(x) ==
    LET f == 0 - x.e - 36        \* fraction bits held in m2
    IN  IF f >= 17 THEN 1
        ELSE x.m2 \div Pow2(f)
             + (IF x.m2 % Pow2(f) # 0 \/ x.m1 # 0 \/ x.m0 # 0 THEN 1 ELSE 0)

(***************************************************************************)
(* BenchResult: the Vec<Duration> of one tag.                              *)
(***************************************************************************)
BenchResult_new == [list |-> <<>>]

n(self) == Len(self.list)

BenchResult_add_result(self, du) == [self EXCEPT !.list = Append(self.list, du)]

\* A mutant of average: the first sample is left out of the sum.
average_skip_first(self) == SeqSum(Tail(self.list)) \div n(self)

\* sum / (n as u32): Duration / u32 is the whole number of nanoseconds of the
\* quotient; with no samples the division by zero panics (TLC reports it).
average(self) == SeqSum(self.list) \div n(self)

\* Vec::sort: ascending.
RECURSIVE SortInsert(_, _)
SortInsert(x, s) ==
    IF s = <<>> THEN <<x>>
    ELSE IF x <= s[1] THEN <<x>> \o s
         ELSE <<s[1]>> \o SortInsert(x, Tail(s))

\* A mutant of Sort: the copy is left in the order recorded.
Sort_unsorted(s) == s

RECURSIVE Sort(_)
Sort(s) == IF s = <<>> THEN <<>> ELSE SortInsert(s[1], Sort(Tail(s)))

\* let p = p as f64 / 100.; let n = len as f64; f64::ceil(p * n) as usize
percentile_index(len, p) ==
    IF len = 0 THEN 0 ELSE F64CeilUsize(F64MulInt(F64Div(p, 100), len))

\* percentile, for 0 < p <= 100; the sorted copy is 0-based in the code, list[i - 1],
\* and 1-based here.  With no samples the index underflows and the code panics.
percentile(self, p) ==
    LET list == Sort(self.list)
        i == percentile_index(Len(self.list), p)
    IN  list[i]

\* One line of formatted output: what the line is, the tag it names, its numbers,
\* and the colour the colored crate wraps it in.
Line(what, tag, nums, colour) == [what |-> what, tag |-> tag, nums |-> nums, colour |-> colour]

\* A mutant of BenchResult_fmt: the percentiles come before the mean.
BenchResult_fmt_swapped(self) ==
    << Line("percentiles", "", <<percentile(self, 50), percentile(self, 95),
                                 percentile(self, 99)>>, ""),
       Line("[ave.]", "", <<average(self)>>, "") >>

\* Display for BenchResult: two lines, each ended by its own newline.
BenchResult_fmt(self) ==
    LET p50 == percentile(self, 50)
        p95 == percentile(self, 95)
        p99 == percentile(self, 99)
    IN  << Line("[ave.]", "", <<average(self)>>, ""),
           Line("percentiles", "", <<p50, p95, p99>>, "") >>

(***************************************************************************)
(* ResultSet: tag_indices is an IndexSet (insertion-ordered, no            *)
(* duplicates), h a HashMap from tag to BenchResult.                       *)
(***************************************************************************)
ResultSet_new == [tag_indices |-> <<>>, h |-> <<>>]

\* A mutant of IndexSet_insert: a new value goes to the front.
IndexSet_insert_front(set, v) == IF v \in Range(set) THEN set ELSE <<v>> \o set

\* IndexSet::insert: appends the value unless it is already in the set.
IndexSet_insert(set, v) == IF v \in Range(set) THEN set ELSE Append(set, v)

\* A mutant of reserve_tag: the reservation creates the tag's entry as well.
reserve_tag_with_entry(self, tag) ==
    [self EXCEPT !.tag_indices = IndexSet_insert(self.tag_indices, tag),
                 !.h = [t \in DOMAIN self.h \cup {tag} |->
                           IF t \in DOMAIN self.h THEN self.h[t] ELSE BenchResult_new]]

reserve_tag(self, tag) == [self EXCEPT !.tag_indices = IndexSet_insert(self.tag_indices, tag)]

\* A mutant of add_result: insert instead of entry().or_insert(), so that every
\* recording starts the tag's BenchResult afresh.
add_result_overwrite(self, tag, du) ==
    [self EXCEPT !.h = [t \in DOMAIN self.h \cup {tag} |->
                           IF t = tag THEN BenchResult_add_result(BenchResult_new, du)
                           ELSE self.h[t]]]

\* A mutant of add_result: the first recording of a tag creates the entry and
\* forgets the sample.
add_result_entry_only(self, tag, du) ==
    [self EXCEPT !.h = [t \in DOMAIN self.h \cup {tag} |->
                           IF t \in DOMAIN self.h
                           THEN (IF t = tag THEN BenchResult_add_result(self.h[t], du)
                                 ELSE self.h[t])
                           ELSE BenchResult_new]]

\* self.h.entry(tag).or_insert(BenchResult::new()).add_result(du)
add_result(self, tag, du) ==
    LET e == IF tag \in DOMAIN self.h THEN self.h[tag] ELSE BenchResult_new
    IN  [self EXCEPT !.h = [t \in DOMAIN self.h \cup {tag} |->
                               IF t = tag THEN BenchResult_add_result(e, du) ELSE self.h[t]]]

(***************************************************************************)
(* IndexMap, as a sequence of [k, v] entries in insertion order.           *)
(***************************************************************************)
IndexMap_new == <<>>

IndexMap_keys(m) == [i \in 1..Len(m) |-> m[i].k]

\* A mutant of IndexMap_insert: a new key goes to the front.
IndexMap_insert_front(m, k, v) ==
    IF \E i \in 1..Len(m) : m[i].k = k
    THEN [i \in 1..Len(m) |-> IF m[i].k = k THEN [k |-> k, v |-> v] ELSE m[i]]
    ELSE <<[k |-> k, v |-> v]>> \o m

\* IndexMap::insert: a key already present keeps its place and takes the new value.
IndexMap_insert(m, k, v) ==
    IF \E i \in 1..Len(m) : m[i].k = k
    THEN [i \in 1..Len(m) |-> IF m[i].k = k THEN [k |-> k, v |-> v] ELSE m[i]]
    ELSE Append(m, [k |-> k, v |-> v])

(***************************************************************************)
(* BenchMan, BenchManSlice, Stopwatch.  An Arc<RwLock<ResultSet>> is the   *)
(* index of its cell in heap; a cell is [lock, data].                      *)
(***************************************************************************)
\* poisoned: a writer has panicked while it held the write guard.
RwLock_new(data) ==
    [lock |-> [writer |-> 0, readers |-> {}, poisoned |-> FALSE], data |-> data]

\* BenchMan::new: the allocation and the handle.
BenchMan_new(hp, tag) ==
    [heap |-> Append(hp, RwLock_new(ResultSet_new)),
     bm |-> [tag |-> tag, result_set |-> Len(hp) + 1]]

\* A mutant of BenchMan_clone: a deep copy, with a ResultSet of its own.
BenchMan_clone_deep(self, hp) ==
    [heap |-> Append(hp, RwLock_new(hp[self.result_set].data)),
     bm |-> [self EXCEPT !.result_set = Len(hp) + 1]]

\* #[derive(Clone)]: Arc::clone of both fields; nothing is allocated.
BenchMan_clone(self, hp) == [heap |-> hp, bm |-> self]

Stopwatch_new(tag, result_set) ==
    [tag |-> Some(tag), result_set |-> result_set, issued |-> tag, reported |-> <<>>]

\* A mutant of slice_loop: a tag without an entry gets an empty BenchResult.
RECURSIVE slice_loop_default(_, _, _)
slice_loop_default(reader, sw_tags, m) ==
    IF sw_tags = <<>> THEN m
    ELSE slice_loop_default(reader, Tail(sw_tags),
                            IndexMap_insert(m, sw_tags[1],
                                            IF sw_tags[1] \in DOMAIN reader.h
                                            THEN reader.h[sw_tags[1]]
                                            ELSE BenchResult_new))

\* The body of slice's loop, for the tags still to visit.
RECURSIVE slice_loop(_, _, _)
slice_loop(reader, sw_tags, m) ==
    IF sw_tags = <<>> THEN m
    ELSE LET sw_tag == sw_tags[1]
         IN  slice_loop(reader, Tail(sw_tags),
                        IF sw_tag \in DOMAIN reader.h
                        THEN IndexMap_insert(m, sw_tag, reader.h[sw_tag])
                        ELSE m)

slice(self, reader, sw_tags) ==
    [bm_tag |-> self.tag, slices |-> slice_loop(reader, sw_tags, IndexMap_new)]

\* writeln!("{}", tag.yellow()); writeln!("{}", v): v's two lines, then the
\* newline writeln adds after them.
entry_fmt(sw_tag, v) ==
    <<Line("samples", sw_tag, <<n(v)>>, "yellow")>> \o BenchResult_fmt(v)
        \o <<Line("", "", <<>>, "")>>

\* A mutant of BenchMan_fmt_loop: a reserved tag without an entry is listed too,
\* with no samples.
RECURSIVE BenchMan_fmt_loop_all(_, _)
BenchMan_fmt_loop_all(reader, tags) ==
    IF tags = <<>> THEN <<>>
    ELSE (IF tags[1] \in DOMAIN reader.h
          THEN entry_fmt(tags[1], reader.h[tags[1]])
          ELSE <<Line("samples", tags[1], <<0>>, "yellow")>>)
         \o BenchMan_fmt_loop_all(reader, Tail(tags))

RECURSIVE BenchMan_fmt_loop(_, _)
BenchMan_fmt_loop(reader, tags) ==
    IF tags = <<>> THEN <<>>
    ELSE (IF tags[1] \in DOMAIN reader.h
          THEN entry_fmt(tags[1], reader.h[tags[1]]) ELSE <<>>)
         \o BenchMan_fmt_loop(reader, Tail(tags))

\* Display for BenchMan.
BenchMan_fmt(self, reader) ==
    <<Line("label", self.tag, <<>>, "blue")>> \o BenchMan_fmt_loop(reader, reader.tag_indices)

RECURSIVE BenchManSlice_fmt_loop(_)
BenchManSlice_fmt_loop(slices) ==
    IF slices = <<>> THEN <<>>
    ELSE entry_fmt(slices[1].k, slices[1].v) \o BenchManSlice_fmt_loop(Tail(slices))

\* Display for BenchManSlice.
BenchManSlice_fmt(self) ==
    <<Line("label", self.bm_tag, <<>>, "blue")>> \o BenchManSlice_fmt_loop(self.slices)

(***************************************************************************)
(* The program: threads that share one BenchMan through its clones.        *)
(***************************************************************************)
VARIABLES
    heap,        \* the Arc<RwLock<ResultSet>> cells
    bm,          \* bm[t]: the BenchMan handle thread t holds, if any
    pc,          \* pc[t]: where thread t is
    arg,         \* arg[t]: the arguments and locals of the call thread t is in
    sw,          \* sw[t]: the stopwatches thread t was given, in order
    view,        \* view[t]: the BenchManSlice thread t holds, if any
    out,         \* the text the last step wrote, who wrote it, and of what
    first_req,   \* history: the tags in the order get_stopwatch first reserved them
    br,          \* a BenchResult on its own, for the statistics
    fed,         \* history: the durations br was given, in order
    ret          \* what the last call on br returned

vars == <<heap, bm, pc, arg, sw, view, out, first_req, br, fed, ret>>
progVars == <<heap, bm, pc, arg, sw, view, out, first_req>>
statVars == <<br, fed, ret>>

NoArg == [tag |-> "", i |-> 0, du |-> 0, tags |-> <<>>]
NoOut == [by |-> 0, of |-> "", text |-> <<>>]
NoRet == [op |-> "", p |-> 0, v |-> 0]

\* The tag lists a caller hands to slice: repeats and every order included (a
\* shorter list is the longer one with a tag repeated).
TagLists == [1..MaxReq -> Tags]

Reg(t) == heap[bm[t][1].result_set]
\* A mutant of WriteFree: a writer waits for the writer only, not for readers.
WriteFree_ignore_readers(cell) == cell.lock.writer = 0

WriteFree(cell) == cell.lock.writer = 0 /\ cell.lock.readers = {}
ReadFree(cell) == cell.lock.writer = 0

Init ==
    LET made == BenchMan_new(<<>>, Label)
    IN  /\ heap = made.heap
        /\ bm = [t \in Threads |-> IF t = 1 THEN Some(made.bm) ELSE None]
        /\ pc = [t \in Threads |-> IF t = 1 THEN "idle" ELSE "unborn"]
        /\ arg = [t \in Threads |-> NoArg]
        /\ sw = [t \in Threads |-> <<>>]
        /\ view = [t \in Threads |-> None]
        /\ out = NoOut
        /\ first_req = <<>>
        /\ br = BenchResult_new
        /\ fed = <<>>
        /\ ret = NoRet

\* let bm = benchman.clone(); std::thread::spawn(move || ...)
Clone(s, t) ==
    /\ bm[s] # None
    /\ pc[t] = "unborn"
    /\ LET c == BenchMan_clone(bm[s][1], heap)
       IN  /\ heap' = c.heap
           /\ bm' = [bm EXCEPT ![t] = Some(c.bm)]
    /\ pc' = [pc EXCEPT ![t] = "idle"]
    /\ out' = NoOut
    /\ UNCHANGED <<arg, sw, view, first_req, statVars>>

\* get_stopwatch: self.result_set.write().unwrap(), the lock not poisoned
GetStopwatchWrite(t, tag) ==
    /\ pc[t] = "idle"
    /\ Len(sw[t]) < MaxSw
    /\ WriteFree(Reg(t))
    /\ ~Reg(t).lock.poisoned
    /\ heap' = [heap EXCEPT ![bm[t][1].result_set].lock.writer = t]
    /\ pc' = [pc EXCEPT ![t] = "reserve"]
    /\ arg' = [arg EXCEPT ![t] = [NoArg EXCEPT !.tag = tag]]
    /\ out' = NoOut
    /\ UNCHANGED <<bm, sw, view, first_req, statVars>>

\* A mutant of GetStopwatchReserve: the write guard is kept (mem::forget), the
\* lock is never released.
GetStopwatchReserve_keep_guard(t) ==
    /\ pc[t] = "reserve"
    /\ LET a == bm[t][1].result_set
           tag == arg[t].tag
       IN  /\ heap' = [heap EXCEPT ![a].data = reserve_tag(@, tag)]
           /\ sw' = [sw EXCEPT ![t] = Append(@, Stopwatch_new(tag, a))]
           /\ first_req' = IF \E i \in 1..Len(first_req) : first_req[i] = tag
                           THEN first_req ELSE first_req \o <<tag>>
    /\ pc' = [pc EXCEPT ![t] = "idle"]
    /\ arg' = [arg EXCEPT ![t] = NoArg]
    /\ out' = NoOut
    /\ UNCHANGED <<bm, view, statVars>>

\* A mutant of GetStopwatchReserve: the stopwatch is made without its tag
\* being reserved.
GetStopwatchReserve_no_reserve(t) ==
    /\ pc[t] = "reserve"
    /\ heap' = [heap EXCEPT ![bm[t][1].result_set].lock.writer = 0]
    /\ sw' = [sw EXCEPT ![t] = Append(@, Stopwatch_new(arg[t].tag, bm[t][1].result_set))]
    /\ pc' = [pc EXCEPT ![t] = "idle"]
    /\ arg' = [arg EXCEPT ![t] = NoArg]
    /\ out' = NoOut
    /\ UNCHANGED <<bm, view, first_req, statVars>>

\* get_stopwatch: .reserve_tag(tag), the guard dropped, Stopwatch::new
GetStopwatchReserve(t) ==
    /\ pc[t] = "reserve"
    /\ LET a == bm[t][1].result_set
           tag == arg[t].tag
       IN  /\ heap' = [heap EXCEPT ![a].data = reserve_tag(@, tag),
                                   ![a].lock.writer = 0]
           /\ sw' = [sw EXCEPT ![t] = Append(@, Stopwatch_new(tag, a))]
           /\ first_req' = IF \E i \in 1..Len(first_req) : first_req[i] = tag
                           THEN first_req ELSE first_req \o <<tag>>
    /\ pc' = [pc EXCEPT ![t] = "idle"]
    /\ arg' = [arg EXCEPT ![t] = NoArg]
    /\ out' = NoOut
    /\ UNCHANGED <<bm, view, statVars>>

\* A mutant of DropWrite: the drop does not wait for the readers to leave.
DropWrite_no_wait(t, i, du) ==
    /\ pc[t] = "idle"
    /\ i \in 1..Len(sw[t])
    /\ sw[t][i].tag # None
    /\ heap[sw[t][i].result_set].lock.writer = 0
    /\ ~heap[sw[t][i].result_set].lock.poisoned
    /\ heap' = [heap EXCEPT ![sw[t][i].result_set].lock.writer = t]
    /\ sw' = [sw EXCEPT ![t][i].tag = None]
    /\ pc' = [pc EXCEPT ![t] = "record"]
    /\ arg' = [arg EXCEPT ![t] = [NoArg EXCEPT !.i = i, !.tag = sw[t][i].tag[1], !.du = du]]
    /\ out' = NoOut
    /\ UNCHANGED <<bm, view, first_req, statVars>>

\* A mutant of DropWrite: the tag is cloned, not taken, so the stopwatch does not
\* know it has been dropped.
DropWrite_keep_tag(t, i, du) ==
    /\ pc[t] = "idle"
    /\ i \in 1..Len(sw[t])
    /\ sw[t][i].tag # None
    /\ WriteFree(heap[sw[t][i].result_set])
    /\ ~heap[sw[t][i].result_set].lock.poisoned
    /\ heap' = [heap EXCEPT ![sw[t][i].result_set].lock.writer = t]
    /\ pc' = [pc EXCEPT ![t] = "record"]
    /\ arg' = [arg EXCEPT ![t] = [NoArg EXCEPT !.i = i, !.tag = sw[t][i].tag[1], !.du = du]]
    /\ out' = NoOut
    /\ UNCHANGED <<bm, sw, view, first_req, statVars>>

\* Drop for Stopwatch: elapsed, self.tag.take().unwrap(), self.result_set.write().unwrap(),
\* the lock not poisoned
DropWrite(t, i, du) ==
    /\ pc[t] = "idle"
    /\ i \in 1..Len(sw[t])
    /\ sw[t][i].tag # None
    /\ WriteFree(heap[sw[t][i].result_set])
    /\ ~heap[sw[t][i].result_set].lock.poisoned
    /\ heap' = [heap EXCEPT ![sw[t][i].result_set].lock.writer = t]
    /\ sw' = [sw EXCEPT ![t][i].tag = None]
    /\ pc' = [pc EXCEPT ![t] = "record"]
    /\ arg' = [arg EXCEPT ![t] = [NoArg EXCEPT !.i = i, !.tag = sw[t][i].tag[1], !.du = du]]
    /\ out' = NoOut
    /\ UNCHANGED <<bm, view, first_req, statVars>>

\* Drop for Stopwatch: .add_result(sw_tag, elapsed), the guard dropped
DropRecord(t) ==
    /\ pc[t] = "record"
    /\ LET a == sw[t][arg[t].i].result_set
       IN  heap' = [heap EXCEPT ![a].data = add_result(@, arg[t].tag, arg[t].du),
                                ![a].lock.writer = 0]
    /\ sw' = [sw EXCEPT ![t][arg[t].i].reported = Append(@, arg[t].tag)]
    /\ pc' = [pc EXCEPT ![t] = "idle"]
    /\ arg' = [arg EXCEPT ![t] = NoArg]
    /\ out' = NoOut
    /\ UNCHANGED <<bm, view, first_req, statVars>>

\* slice: self.result_set.read().unwrap(), the lock not poisoned
SliceRead(t, tags) ==
    /\ pc[t] = "idle"
    /\ Cardinality({u \in Threads : pc[u] \in {"slice", "sliced"}}) < MaxViews
    /\ ReadFree(Reg(t))
    /\ ~Reg(t).lock.poisoned
    /\ heap' = [heap EXCEPT ![bm[t][1].result_set].lock.readers = @ \cup {t}]
    /\ pc' = [pc EXCEPT ![t] = "slice"]
    /\ arg' = [arg EXCEPT ![t] = [NoArg EXCEPT !.tags = tags]]
    /\ out' = NoOut
    /\ UNCHANGED <<bm, sw, view, first_req, statVars>>

\* A mutant of SliceCopy: the entries are moved out of the registry, not cloned.
SliceCopy_take(t) ==
    /\ pc[t] = "slice"
    /\ view' = [view EXCEPT ![t] = Some(slice(bm[t][1], Reg(t).data, arg[t].tags))]
    /\ heap' = [heap EXCEPT
                   ![bm[t][1].result_set].lock.readers = @ \ {t},
                   ![bm[t][1].result_set].data.h =
                       [tag \in DOMAIN @ \ Range(arg[t].tags) |-> @[tag]]]
    /\ pc' = [pc EXCEPT ![t] = "sliced"]
    /\ arg' = [arg EXCEPT ![t] = NoArg]
    /\ out' = NoOut
    /\ UNCHANGED <<bm, sw, first_req, statVars>>

\* slice: the loop, the BenchManSlice, the guard dropped at the end of the function
SliceCopy(t) ==
    /\ pc[t] = "slice"
    /\ view' = [view EXCEPT ![t] = Some(slice(bm[t][1], Reg(t).data, arg[t].tags))]
    /\ heap' = [heap EXCEPT ![bm[t][1].result_set].lock.readers = @ \ {t}]
    /\ pc' = [pc EXCEPT ![t] = "sliced"]
    /\ arg' = [arg EXCEPT ![t] = NoArg]
    /\ out' = NoOut
    /\ UNCHANGED <<bm, sw, first_req, statVars>>

\* The BenchManSlice goes out of scope unprinted.
DropSlice(t) ==
    /\ pc[t] = "sliced"
    /\ view' = [view EXCEPT ![t] = None]
    /\ pc' = [pc EXCEPT ![t] = "idle"]
    /\ out' = NoOut
    /\ UNCHANGED <<heap, bm, arg, sw, first_req, statVars>>

\* Display for BenchMan: the label line, self.result_set.read().unwrap(), the lock
\* not poisoned
FmtRead(t) ==
    /\ pc[t] = "idle"
    /\ ReadFree(Reg(t))
    /\ ~Reg(t).lock.poisoned
    /\ heap' = [heap EXCEPT ![bm[t][1].result_set].lock.readers = @ \cup {t}]
    /\ pc' = [pc EXCEPT ![t] = "fmt"]
    /\ out' = NoOut
    /\ UNCHANGED <<bm, arg, sw, view, first_req, statVars>>

\* Display for BenchMan: the loop over tag_indices, the guard dropped
FmtWrite(t) ==
    /\ pc[t] = "fmt"
    /\ out' = [by |-> t, of |-> "BenchMan", text |-> BenchMan_fmt(bm[t][1], Reg(t).data)]
    /\ heap' = [heap EXCEPT ![bm[t][1].result_set].lock.readers = @ \ {t}]
    /\ pc' = [pc EXCEPT ![t] = "idle"]
    /\ UNCHANGED <<bm, arg, sw, view, first_req, statVars>>

\* println!("{}", benchman.slice(..)): Display for BenchManSlice, which takes no
\* lock; the BenchManSlice is a temporary of the statement.
FmtSlice(t) ==
    /\ pc[t] = "sliced"
    /\ out' = [by |-> t, of |-> "BenchManSlice", text |-> BenchManSlice_fmt(view[t][1])]
    /\ view' = [view EXCEPT ![t] = None]
    /\ pc' = [pc EXCEPT ![t] = "idle"]
    /\ UNCHANGED <<heap, bm, arg, sw, first_req, statVars>>

Next ==
    \E t \in Threads :
        \/ \E s \in Threads : Clone(s, t)
        \/ \E tag \in Tags : GetStopwatchWrite(t, tag)
        \/ GetStopwatchReserve(t)
        \/ \E i \in 1..MaxSw, du \in Durations : DropWrite(t, i, du)
        \/ DropRecord(t)
        \/ \E tags \in TagLists : SliceRead(t, tags)
        \/ SliceCopy(t)
        \/ DropSlice(t)
        \/ FmtRead(t)
        \/ FmtWrite(t)
        \/ FmtSlice(t)

Spec == Init /\ [][Next]_vars

(***************************************************************************)
(* The error path of unwrap(): the program with a writer that panics       *)
(* inside its critical section.  The write guard is dropped by the         *)
(* unwinding and poisons the lock; write() and read() on a poisoned lock   *)
(* return Err and unwrap() panics.  A panicking thread unwinds: if it      *)
(* holds a stopwatch that is alive, the stopwatch's drop meets the         *)
(* poisoned lock and panics during the unwinding, which aborts the process.*)
(***************************************************************************)
\* Thread t holds a live stopwatch other than stopwatch i.
HoldsLive(t, i) == \E j \in 1..Len(sw[t]) : j # i /\ sw[t][j].tag # None

\* pc after the panic of thread t, which is dropping stopwatch i (0: none).
Unwind(t, i) ==
    IF HoldsLive(t, i) THEN [u \in Threads |-> "aborted"]
    ELSE [pc EXCEPT ![t] = "panicked"]

\* reserve_tag or add_result panics under the write guard.
WriterPanics(t) ==
    /\ pc[t] \in {"reserve", "record"}
    /\ LET a == IF pc[t] = "reserve" THEN bm[t][1].result_set
                ELSE sw[t][arg[t].i].result_set
       IN  heap' = [heap EXCEPT ![a].lock.writer = 0, ![a].lock.poisoned = TRUE]
    /\ pc' = Unwind(t, arg[t].i)
    /\ arg' = [arg EXCEPT ![t] = NoArg]
    /\ out' = NoOut
    /\ UNCHANGED <<bm, sw, view, first_req, statVars>>

\* get_stopwatch: self.result_set.write().unwrap() on a poisoned lock
GetStopwatchPoisoned(t, tag) ==
    /\ pc[t] = "idle"
    /\ Len(sw[t]) < MaxSw
    /\ WriteFree(Reg(t))
    /\ Reg(t).lock.poisoned
    /\ pc' = Unwind(t, 0)
    /\ out' = NoOut
    /\ UNCHANGED <<heap, bm, arg, sw, view, first_req, statVars>>

\* A mutant of DropPoisoned: the poison is ignored (PoisonError::into_inner) and
\* the drop goes on to record.
DropPoisoned_into_inner(t, i, du) ==
    /\ pc[t] = "idle"
    /\ i \in 1..Len(sw[t])
    /\ sw[t][i].tag # None
    /\ WriteFree(heap[sw[t][i].result_set])
    /\ heap[sw[t][i].result_set].lock.poisoned
    /\ heap' = [heap EXCEPT ![sw[t][i].result_set].lock.writer = t]
    /\ sw' = [sw EXCEPT ![t][i].tag = None]
    /\ pc' = [pc EXCEPT ![t] = "record"]
    /\ arg' = [arg EXCEPT ![t] = [NoArg EXCEPT !.i = i, !.tag = sw[t][i].tag[1], !.du = du]]
    /\ out' = NoOut
    /\ UNCHANGED <<bm, view, first_req, statVars>>

\* Drop for Stopwatch: elapsed, self.tag.take().unwrap(), then
\* self.result_set.write().unwrap() on a poisoned lock
DropPoisoned(t, i, du) ==
    /\ pc[t] = "idle"
    /\ i \in 1..Len(sw[t])
    /\ sw[t][i].tag # None
    /\ WriteFree(heap[sw[t][i].result_set])
    /\ heap[sw[t][i].result_set].lock.poisoned
    /\ sw' = [sw EXCEPT ![t][i].tag = None]
    /\ pc' = Unwind(t, i)
    /\ out' = NoOut
    /\ UNCHANGED <<heap, bm, arg, view, first_req, statVars>>

\* slice: self.result_set.read().unwrap() on a poisoned lock
SlicePoisoned(t, tags) ==
    /\ pc[t] = "idle"
    /\ ReadFree(Reg(t))
    /\ Reg(t).lock.poisoned
    /\ pc' = Unwind(t, 0)
    /\ out' = NoOut
    /\ UNCHANGED <<heap, bm, arg, sw, view, first_req, statVars>>

\* Display for BenchMan: the label line is written, then
\* self.result_set.read().unwrap() on a poisoned lock
FmtPoisoned(t) ==
    /\ pc[t] = "idle"
    /\ ReadFree(Reg(t))
    /\ Reg(t).lock.poisoned
    /\ out' = [by |-> t, of |-> "BenchMan",
               text |-> <<Line("label", bm[t][1].tag, <<>>, "blue")>>]
    /\ pc' = Unwind(t, 0)
    /\ UNCHANGED <<heap, bm, arg, sw, view, first_req, statVars>>

PoisonNext ==
    \/ Next
    \/ \E t \in Threads :
           \/ WriterPanics(t)
           \/ \E tag \in Tags : GetStopwatchPoisoned(t, tag)
           \/ \E i \in 1..MaxSw, du \in Durations : DropPoisoned(t, i, du)
           \/ \E tags \in TagLists : SlicePoisoned(t, tags)
           \/ FmtPoisoned(t)

PoisonSpec == Init /\ [][PoisonNext]_vars

(***************************************************************************)
(* The program with its waiting made visible: a call that needs the lock   *)
(* is first made (the thread is committed to it) and then blocks in        *)
(* write() or read() until the lock lets it in.  A thread inside the       *)
(* critical section keeps running (weak fairness); a waiting thread that   *)
(* the lock could let in again and again is let in (strong fairness).      *)
(* Nothing obliges a thread to make a call.                                *)
(***************************************************************************)
LiveThreads == 1..NLive

\* Every thread times the same tag, as the threads of test_benchman_spawn do.
LiveTags == {"inner"}

LiveInit ==
    LET made == BenchMan_new(<<>>, Label)
    IN  /\ heap = made.heap
        /\ bm = [t \in LiveThreads |-> IF t = 1 THEN Some(made.bm) ELSE None]
        /\ pc = [t \in LiveThreads |-> IF t = 1 THEN "idle" ELSE "unborn"]
        /\ arg = [t \in LiveThreads |-> NoArg]
        /\ sw = [t \in LiveThreads |-> <<>>]
        /\ view = [t \in LiveThreads |-> None]
        /\ out = NoOut
        /\ first_req = <<>>
        /\ br = BenchResult_new
        /\ fed = <<>>
        /\ ret = NoRet

\* bm.get_stopwatch(tag) is called.
CallGetStopwatch(t, tag) ==
    /\ pc[t] = "idle"
    /\ Len(sw[t]) < MaxLiveSw
    /\ pc' = [pc EXCEPT ![t] = "get_stopwatch"]
    /\ arg' = [arg EXCEPT ![t] = [NoArg EXCEPT !.tag = tag]]
    /\ out' = NoOut
    /\ UNCHANGED <<heap, bm, sw, view, first_req, statVars>>

\* A stopwatch goes out of scope: elapsed, self.tag.take().unwrap()
CallDrop(t, i, du) ==
    /\ pc[t] = "idle"
    /\ i \in 1..Len(sw[t])
    /\ sw[t][i].tag # None
    /\ sw' = [sw EXCEPT ![t][i].tag = None]
    /\ pc' = [pc EXCEPT ![t] = "drop"]
    /\ arg' = [arg EXCEPT ![t] = [NoArg EXCEPT !.i = i, !.tag = sw[t][i].tag[1], !.du = du]]
    /\ out' = NoOut
    /\ UNCHANGED <<heap, bm, view, first_req, statVars>>

\* bm.slice(tags) is called.
CallSlice(t, tags) ==
    /\ pc[t] = "idle"
    /\ Cardinality({u \in LiveThreads : pc[u] \in {"slice_call", "slice", "sliced"}})
           < MaxViews
    /\ pc' = [pc EXCEPT ![t] = "slice_call"]
    /\ arg' = [arg EXCEPT ![t] = [NoArg EXCEPT !.tags = tags]]
    /\ out' = NoOut
    /\ UNCHANGED <<heap, bm, sw, view, first_req, statVars>>

\* Display for BenchMan is called: the label line
CallFmt(t) ==
    /\ pc[t] = "idle"
    /\ pc' = [pc EXCEPT ![t] = "fmt_call"]
    /\ out' = NoOut
    /\ UNCHANGED <<heap, bm, arg, sw, view, first_req, statVars>>

\* self.result_set.write().unwrap() lets the thread in.
LockWrite(t) ==
    /\ pc[t] \in {"get_stopwatch", "drop"}
    /\ LET a == IF pc[t] = "drop" THEN sw[t][arg[t].i].result_set
                ELSE bm[t][1].result_set
       IN  /\ WriteFree(heap[a])
           /\ ~heap[a].lock.poisoned
           /\ heap' = [heap EXCEPT ![a].lock.writer = t]
    /\ pc' = [pc EXCEPT ![t] = IF pc[t] = "drop" THEN "record" ELSE "reserve"]
    /\ out' = NoOut
    /\ UNCHANGED <<bm, arg, sw, view, first_req, statVars>>

\* self.result_set.read().unwrap() lets the thread in.
LockRead(t) ==
    /\ pc[t] \in {"slice_call", "fmt_call"}
    /\ ReadFree(Reg(t))
    /\ ~Reg(t).lock.poisoned
    /\ heap' = [heap EXCEPT ![bm[t][1].result_set].lock.readers = @ \cup {t}]
    /\ pc' = [pc EXCEPT ![t] = IF pc[t] = "slice_call" THEN "slice" ELSE "fmt"]
    /\ out' = NoOut
    /\ UNCHANGED <<bm, arg, sw, view, first_req, statVars>>

LiveNext ==
    \E t \in LiveThreads :
        \/ \E s \in LiveThreads : Clone(s, t)
        \/ \E tag \in LiveTags : CallGetStopwatch(t, tag)
        \/ \E i \in 1..MaxLiveSw, du \in 0..MaxLiveDur : CallDrop(t, i, du)
        \/ \E tags \in TagLists : CallSlice(t, tags)
        \/ CallFmt(t)
        \/ LockWrite(t)
        \/ LockRead(t)
        \/ GetStopwatchReserve(t)
        \/ DropRecord(t)
        \/ SliceCopy(t)
        \/ FmtWrite(t)
        \/ DropSlice(t)
        \/ FmtSlice(t)

\* The step FmtWrite(t), told by pc alone: FmtWrite(t) is enabled whenever
\* pc[t] = "fmt", and no other step takes a thread from "fmt" to "idle".
FmtReturns(t) == pc[t] = "fmt" /\ pc' = [pc EXCEPT ![t] = "idle"]

\* The other steps of thread t inside the critical section, and its way in.
Leave(t) == GetStopwatchReserve(t) \/ DropRecord(t) \/ SliceCopy(t)

Enter(t) == LockWrite(t) \/ LockRead(t)

LiveFairness ==
    \A t \in LiveThreads :
        /\ WF_vars(Leave(t))
        /\ WF_pc(FmtReturns(t))
        /\ SF_vars(Enter(t))

LiveSpec == LiveInit /\ [][LiveNext]_vars /\ LiveFairness

(***************************************************************************)
(* The statistics of one BenchResult: every short list of durations, and   *)
(* one long list of scattered distinct durations, sample by sample.        *)
(***************************************************************************)
LongSample(k) == (k * 7) % 31

IsLong(list) == \A i \in 1..Len(list) : list[i] = LongSample(i)

StatAdd(du) ==
    /\ ret = NoRet
    /\ Len(br.list) < MaxLen
    /\ br' = BenchResult_add_result(br, du)
    /\ fed' = Append(fed, du)
    /\ ret' = NoRet
    /\ UNCHANGED progVars

StatAddLong ==
    /\ ret = NoRet
    /\ IsLong(br.list)
    /\ Len(br.list) < MaxLong
    /\ br' = BenchResult_add_result(br, LongSample(Len(br.list) + 1))
    /\ fed' = Append(fed, LongSample(Len(br.list) + 1))
    /\ ret' = NoRet
    /\ UNCHANGED progVars

StatN ==
    /\ ret = NoRet
    /\ ret' = [op |-> "n", p |-> 0, v |-> n(br)]
    /\ UNCHANGED <<br, fed, progVars>>

\* Display calls average and percentile on stored entries only, which hold a sample.
StatAverage ==
    /\ ret = NoRet
    /\ n(br) >= 1
    /\ ret' = [op |-> "average", p |-> 0, v |-> average(br)]
    /\ UNCHANGED <<br, fed, progVars>>

StatPercentile(p) ==
    /\ ret = NoRet
    /\ n(br) >= 1
    /\ ret' = [op |-> "percentile", p |-> p, v |-> percentile(br, p)]
    /\ UNCHANGED <<br, fed, progVars>>

\* The caller is done with the value returned.
StatReturn ==
    /\ ret # NoRet
    /\ ret' = NoRet
    /\ UNCHANGED <<br, fed, progVars>>

StatNext ==
    \/ \E du \in StatDurations : StatAdd(du)
    \/ StatAddLong
    \/ StatN
    \/ StatAverage
    \/ \E p \in 1..100 : StatPercentile(p)
    \/ StatReturn

StatSpec == Init /\ [][StatNext]_vars

(***************************************************************************)
(* What the properties speak of.                                           *)
(***************************************************************************)
Handles == {t \in Threads : bm[t] # None}

Data(t) == Reg(t).data

\* count(): the samples a ResultSet holds for a tag.
CountIn(data, tag) == IF tag \in DOMAIN data.h THEN Len(data.h[tag].list) ELSE 0

\* Stopwatch i of thread t has been dropped, and its drop has returned.
IsDropped(t, i) == sw[t][i].tag = None /\ ~(pc[t] = "record" /\ arg[t].i = i)

IssuedBy(t, tag) == {i \in 1..Len(sw[t]) : sw[t][i].issued = tag}

DroppedOf(tag) ==
    {ti \in Threads \X (1..MaxSw) :
        /\ ti[2] <= Len(sw[ti[1]])
        /\ sw[ti[1]][ti[2]].issued = tag
        /\ IsDropped(ti[1], ti[2])}

\* The tags of the "<tag> (<N> samples)" lines of a text, in order.
ReportTags(text) ==
    LET heads == SelectSeq(text, LAMBDA l : l.what = "samples")
    IN  [j \in 1..Len(heads) |-> heads[j].tag]

NoRepeat(s) == \A i, j \in 1..Len(s) : s[i] = s[j] => i = j

\* s without the later occurrences of a value.
FirstOccurrences(s) ==
    LET keep == {i \in 1..Len(s) : \A j \in 1..(i - 1) : s[j] # s[i]}
        pos(j) == CHOOSE i \in keep : Cardinality({k \in keep : k < i}) = j - 1
    IN  [j \in 1..Cardinality(keep) |-> s[pos(j)]]

\* Thread t's call of slice returns in this step.
SliceReturns(t) == pc[t] = "slice" /\ pc'[t] = "sliced"

(***************************************************************************)
(* C1.  When every thread that uses a tag has created M stopwatches for it *)
(* and all of them have been dropped, whatever the interleaving, the tag   *)
(* holds exactly N * M samples, N the number of those threads.             *)
(***************************************************************************)
C1_ConcurrentCount ==
    \A tag \in Tags, m \in 1..MaxSw :
        LET user == {t \in Threads : IssuedBy(t, tag) # {}}
        IN  (/\ user # {}
             /\ \A t \in user :
                    /\ Cardinality(IssuedBy(t, tag)) = m
                    /\ \A i \in IssuedBy(t, tag) : IsDropped(t, i))
            => CountIn(heap[1].data, tag) = Cardinality(user) * m

\* Every thread has created MaxSw stopwatches of one tag and dropped them all.
C1_Witness ==
    \E tag \in Tags :
        /\ \A t \in Threads :
               /\ Cardinality(IssuedBy(t, tag)) = MaxSw
               /\ \A i \in IssuedBy(t, tag) : IsDropped(t, i)
        /\ CountIn(heap[1].data, tag) = NThreads * MaxSw

(***************************************************************************)
(* C2.  Every stopwatch reports exactly once: a dropped stopwatch has      *)
(* added one sample, under the tag it was created with, a stopwatch not    *)
(* yet dropped has added none, and each tag holds as many samples as       *)
(* stopwatches of that tag have been dropped.                              *)
(***************************************************************************)
C2_ReportsOnce ==
    /\ \A t \in Threads : \A i \in 1..Len(sw[t]) :
           /\ IsDropped(t, i) => sw[t][i].reported = <<sw[t][i].issued>>
           /\ ~IsDropped(t, i) => sw[t][i].reported = <<>>
    /\ \A tag \in Tags : CountIn(heap[1].data, tag) = Cardinality(DroppedOf(tag))

\* A thread has dropped a stopwatch early (one it created later is still alive),
\* another thread has dropped one of the same tag, and the tag holds two samples.
C2_Witness ==
    \E t, u \in Threads : \E i, k \in 1..Len(sw[t]) : \E j \in 1..Len(sw[u]) :
        /\ t # u
        /\ i < k
        /\ IsDropped(t, i)
        /\ sw[t][k].tag # None
        /\ IsDropped(u, j)
        /\ sw[u][j].issued = sw[t][i].issued
        /\ CountIn(heap[1].data, sw[t][i].issued) = 2

(***************************************************************************)
(* C3.  The registry keeps the tags in the order get_stopwatch first       *)
(* reserved them, so no later get_stopwatch or drop reorders them, and the *)
(* full report lists the tags that hold samples in that order.             *)
(***************************************************************************)
C3_ReservationOrder ==
    /\ \A t \in Handles : Data(t).tag_indices = first_req
    /\ out.of = "BenchMan" =>
           ReportTags(out.text)
               = SelectSeq(first_req, LAMBDA tag : CountIn(Data(out.by), tag) > 0)

\* A full report lists two tags, in the order they were reserved.
C3_Witness ==
    /\ out.of = "BenchMan"
    /\ Len(first_req) = 2
    /\ ReportTags(out.text) = first_req

(***************************************************************************)
(* C4.  A tag is in the full report if and only if a stopwatch of that tag *)
(* has been dropped: a tag that is only reserved is left out.              *)
(***************************************************************************)
C4_ReportedIffRecorded ==
    out.of = "BenchMan" =>
        /\ NoRepeat(ReportTags(out.text))
        /\ \A tag \in Tags :
               tag \in Range(ReportTags(out.text)) <=> DroppedOf(tag) # {}

\* A full report that lists one tag and leaves out a tag that is reserved, its
\* stopwatch still alive.
C4_Witness ==
    /\ out.of = "BenchMan"
    /\ Len(ReportTags(out.text)) = 1
    /\ \E tag \in Range(first_req) :
           /\ tag \notin Range(ReportTags(out.text))
           /\ \E t \in Threads : \E i \in 1..Len(sw[t]) :
                  sw[t][i].issued = tag /\ sw[t][i].tag # None

(***************************************************************************)
(* C5.  slice returns a view of exactly the requested tags of which a      *)
(* stopwatch has been dropped, each with as many samples as stopwatches of *)
(* that tag were dropped before; a requested tag without a sample is left  *)
(* out.  Nested: with "outer" held and K "inner" stopwatches dropped,      *)
(* slice(["inner", "outer", ..]) holds "inner" with K samples and no       *)
(* "outer"; once "outer" is dropped too it holds both, "outer" with one.   *)
(***************************************************************************)
NestedDone(t, outerDropped) ==
    /\ \A u \in Threads \ {t} : sw[u] = <<>>
    /\ Len(sw[t]) >= 2
    /\ sw[t][1].issued = "outer"
    /\ IF outerDropped THEN IsDropped(t, 1) ELSE sw[t][1].tag # None
    /\ \A i \in 2..Len(sw[t]) : sw[t][i].issued = "inner" /\ IsDropped(t, i)

C5_SliceContents ==
    [][\A t \in Threads : SliceReturns(t) =>
          LET m == view'[t][1].slices
              req == arg[t].tags
              inner == CHOOSE j \in 1..Len(m) : m[j].k = "inner"
              outer == CHOOSE j \in 1..Len(m) : m[j].k = "outer"
          IN  /\ Range(IndexMap_keys(m)) = {tag \in Range(req) : DroppedOf(tag) # {}}
              /\ NoRepeat(IndexMap_keys(m))
              /\ \A j \in 1..Len(m) : Len(m[j].v.list) = Cardinality(DroppedOf(m[j].k))
              /\ (NestedDone(t, FALSE) /\ Range(req) = {"inner", "outer"}) =>
                     /\ Range(IndexMap_keys(m)) = {"inner"}
                     /\ Len(m[inner].v.list) = Len(sw[t]) - 1
              /\ (NestedDone(t, TRUE) /\ Range(req) = {"inner", "outer"}) =>
                     /\ Range(IndexMap_keys(m)) = {"inner", "outer"}
                     /\ Len(m[inner].v.list) = Len(sw[t]) - 1
                     /\ Len(m[outer].v.list) = 1
      ]_vars

\* The nested scenario before "outer" is dropped: the view holds "inner" alone.
C5_Witness ==
    \E t \in Threads :
        /\ pc[t] = "sliced"
        /\ NestedDone(t, FALSE)
        /\ Len(sw[t]) = MaxSw
        /\ IndexMap_keys(view[t][1].slices) = <<"inner">>
        /\ Len(view[t][1].slices[1].v.list) = MaxSw - 1

(***************************************************************************)
(* C6.  A view is a copy: slice leaves every registry as it is, and a view *)
(* stays as it was made whatever get_stopwatch and drop do afterwards.     *)
(***************************************************************************)
C6_ViewIsCopy ==
    [][\A t \in Threads :
          /\ ((pc[t] = "idle" /\ pc'[t] = "slice") \/ SliceReturns(t)) =>
                 /\ DOMAIN heap' = DOMAIN heap
                 /\ \A a \in DOMAIN heap : heap'[a].data = heap[a].data
          /\ (pc[t] = "sliced" /\ pc'[t] = "sliced") => view'[t] = view[t]
      ]_vars

\* A view that is stale: its tag has got a sample since the view was made.
C6_Witness ==
    \E t \in Threads :
        /\ pc[t] = "sliced"
        /\ \E j \in 1..Len(view[t][1].slices) :
               Len(view[t][1].slices[j].v.list)
                   < CountIn(Data(t), view[t][1].slices[j].k)

(***************************************************************************)
(* C7.  A view holds the requested tags that are present in the order they *)
(* were given to slice, each once (at its first place) even when the list  *)
(* repeats it, and renders them in that order.                             *)
(***************************************************************************)
C7_RequestOrder ==
    [][\A t \in Threads :
          /\ SliceReturns(t) =>
                 IndexMap_keys(view'[t][1].slices)
                     = FirstOccurrences(SelectSeq(arg[t].tags,
                                                  LAMBDA tag : DroppedOf(tag) # {}))
          /\ (pc[t] = "sliced" /\ out'.of = "BenchManSlice" /\ out'.by = t) =>
                 ReportTags(out'.text) = IndexMap_keys(view[t][1].slices)
      ]_vars

\* A view rendered with two tags in the order opposite to their reservation.
C7_Witness ==
    /\ out.of = "BenchManSlice"
    /\ Len(first_req) = 2
    /\ ReportTags(out.text) = <<first_req[2], first_req[1]>>

(***************************************************************************)
(* C8.  Every handle is a clone that shares the one registry and keeps the *)
(* label: what a stopwatch of any thread reserved or recorded is in the    *)
(* registry of every handle, and in the full report whoever renders it.    *)
(***************************************************************************)
C8_ClonesShare ==
    /\ \A t \in Handles :
           /\ bm[t][1].tag = Label
           /\ bm[t][1].result_set = bm[1][1].result_set
           /\ \A tag \in Tags : CountIn(Data(t), tag) = Cardinality(DroppedOf(tag))
           /\ \A u \in Threads : \A i \in 1..Len(sw[u]) :
                  sw[u][i].issued \in Range(Data(t).tag_indices)
    /\ out.of = "BenchMan" =>
           /\ out.text[1] = Line("label", Label, <<>>, "blue")
           /\ \A l \in Range(out.text) :
                  l.what = "samples" => l.nums = <<Cardinality(DroppedOf(l.tag))>>
           /\ \A tag \in Tags : DroppedOf(tag) # {} => tag \in Range(ReportTags(out.text))

\* A full report rendered by one thread lists a tag only another thread has used.
C8_Witness ==
    /\ out.of = "BenchMan"
    /\ \E u \in Threads \ {out.by} : \E i \in 1..Len(sw[u]) :
           /\ IsDropped(u, i)
           /\ sw[u][i].issued \in Range(ReportTags(out.text))
           /\ IssuedBy(out.by, sw[u][i].issued) = {}

(***************************************************************************)
(* C9.  After N >= 1 recordings count() is N, and mean() is the sum of     *)
(* exactly those N durations divided by N, as a Duration (a whole number   *)
(* of nanoseconds), in whatever order they were recorded.                  *)
(***************************************************************************)
\* The sum of a list by its values and how often each occurs: no order enters.
RECURSIVE ValueSum(_, _)
ValueSum(s, vals) ==
    IF vals = {} THEN 0
    ELSE LET v == CHOOSE x \in vals : TRUE
         IN  v * Cardinality({i \in 1..Len(s) : s[i] = v}) + ValueSum(s, vals \ {v})

C9_CountAndMean ==
    /\ ret.op = "n" => ret.v = Len(fed)
    /\ ret.op = "average" =>
           LET cnt == Len(fed)
               total == ValueSum(fed, Range(fed))
           IN  /\ cnt >= 1
               /\ ret.v * cnt <= total
               /\ total < (ret.v + 1) * cnt
               /\ cnt <= MaxLen =>
                      \A f \in Permutations(1..cnt) :
                          average([list |-> [i \in 1..cnt |-> fed[f[i]]]]) = ret.v

\* The mean of a full short list that was recorded out of order and whose sum
\* is no multiple of its length.
C9_Witness ==
    /\ ret.op = "average"
    /\ Len(fed) = MaxLen
    /\ fed[1] > fed[2]
    /\ SeqSum(fed) % Len(fed) # 0
    /\ ret.v >= 1

(***************************************************************************)
(* C10.  For n >= 1 samples and p in 1..100, percentile(p) is the value at *)
(* 1-based position ceil(p / 100 * n) of the samples in ascending order,   *)
(* and the stored sequence stays as it was recorded.                       *)
(***************************************************************************)
\* v stands at 1-based position k of s in ascending order.
AtRank(s, k, v) ==
    /\ \E i \in 1..Len(s) : s[i] = v
    /\ Cardinality({i \in 1..Len(s) : s[i] < v}) < k
    /\ k <= Cardinality({i \in 1..Len(s) : s[i] <= v})

C10_ExactRank ==
    ret.op = "percentile" =>
        /\ AtRank(fed, (ret.p * Len(fed) + 99) \div 100, ret.v)
        /\ br.list = fed

(***************************************************************************)
(* C11.  With n >= 1 samples percentile(100) is the largest recorded       *)
(* value, and percentile(p1) <= percentile(p2) for all 0 < p1 <= p2 <= 100.*)
(***************************************************************************)
C11_MaxAndMonotone ==
    ret.op = "percentile" =>
        /\ ret.p = 100 =>
               /\ \E i \in 1..Len(fed) : fed[i] = ret.v
               /\ \A i \in 1..Len(fed) : fed[i] <= ret.v
        /\ \A p1 \in 1..ret.p : percentile(br, p1) <= ret.v

\* percentile(100) of a list whose largest value is neither its last nor its
\* first, and lies above percentile(1).
C11_Witness ==
    /\ ret.op = "percentile"
    /\ ret.p = 100
    /\ Len(fed) >= 3
    /\ ret.v > fed[Len(fed)]
    /\ ret.v > fed[1]
    /\ percentile(br, 1) < ret.v

(***************************************************************************)
(* C12.  A report is the label line and then, for each tag with samples in *)
(* report order, the lines "<tag> (<N> samples)", "[ave.] <mean>" and      *)
(* "<p50> (>50%), <p95> (>95%), <p99> (>99%)"; a view renders alike.       *)
(* As claimed, a tag's header follows the percentile line of the tag       *)
(* before it at once (C12_ThreeLineBlocks).  In the code an empty line     *)
(* follows every percentile line: BenchResult's Display ends its last line *)
(* itself and writeln!("{}", v) ends it once more (C12_BlankLineAfterBlock)*)
(***************************************************************************)
\* The entries a full report lists: the reserved tags that have an entry.
FullEntries(data) ==
    LET tags == SelectSeq(data.tag_indices, LAMBDA tag : tag \in DOMAIN data.h)
    IN  [j \in 1..Len(tags) |-> [k |-> tags[j], v |-> data.h[tags[j]]]]

\* The three lines of one tag stand at text[at], text[at + 1], text[at + 2].
BlockAt(text, at, tag, list) ==
    LET cnt == Len(list)
        total == ValueSum(list, Range(list))
        mean == text[at + 1].nums
        ps == text[at + 2].nums
    IN  /\ text[at].what = "samples" /\ text[at].tag = tag /\ text[at].nums = <<cnt>>
        /\ text[at + 1].what = "[ave.]"
        /\ Len(mean) = 1
        /\ mean[1] * cnt <= total /\ total < (mean[1] + 1) * cnt
        /\ text[at + 2].what = "percentiles"
        /\ Len(ps) = 3
        /\ AtRank(list, (50 * cnt + 99) \div 100, ps[1])
        /\ AtRank(list, (95 * cnt + 99) \div 100, ps[2])
        /\ AtRank(list, (99 * cnt + 99) \div 100, ps[3])

\* text is the label line and one block per entry, every block being the three
\* lines and after them gap empty lines.
IsReport(text, label, entries, gap) ==
    /\ Len(text) = 1 + (3 + gap) * Len(entries)
    /\ text[1].what = "label" /\ text[1].tag = label
    /\ \A j \in 1..Len(entries) :
           LET at == 2 + (3 + gap) * (j - 1)
           IN  /\ BlockAt(text, at, entries[j].k, entries[j].v.list)
               /\ \A g \in 1..gap : text[at + 2 + g].what = ""

\* Every text written in this step is a report with gap empty lines after a block.
ReportsHaveGap(gap) ==
    /\ out'.of = "BenchMan" =>
           IsReport(out'.text, Label, FullEntries(heap'[bm'[out'.by][1].result_set].data), gap)
    /\ \A t \in Threads :
           (pc[t] = "sliced" /\ out'.of = "BenchManSlice" /\ out'.by = t) =>
               IsReport(out'.text, Label, view[t][1].slices, gap)

C12_ThreeLineBlocks == [][ReportsHaveGap(0)]_vars

C12_BlankLineAfterBlock == [][ReportsHaveGap(1)]_vars

\* A full report of two tags: an empty line stands between the percentile line
\* of the first and the header of the second.
C12_Witness ==
    /\ out.of = "BenchMan"
    /\ Len(out.text) = 9
    /\ out.text[4].what = "percentiles"
    /\ out.text[5].what = ""
    /\ out.text[6].what = "samples"

(***************************************************************************)
(* C14.  The registry lock is a readers-writer lock: at most one writer (a *)
(* reservation in get_stopwatch, an append in a drop) is inside the        *)
(* critical section, with a writer inside no reader (render, slice) and no *)
(* other writer is, and readers may be inside together.                    *)
(***************************************************************************)
\* The threads inside the critical section of cell a, as writers and as readers.
Writers(a) ==
    {t \in Threads : \/ pc[t] = "reserve" /\ bm[t][1].result_set = a
                     \/ pc[t] = "record" /\ sw[t][arg[t].i].result_set = a}

Readers(a) == {t \in Threads : pc[t] \in {"slice", "fmt"} /\ bm[t][1].result_set = a}

C14_ReadersWriterLock ==
    \A a \in DOMAIN heap :
        /\ Cardinality(Writers(a)) <= 1
        /\ Writers(a) # {} => Readers(a) = {}
        /\ Writers(a) = (IF heap[a].lock.writer = 0 THEN {} ELSE {heap[a].lock.writer})
        /\ Readers(a) = heap[a].lock.readers

\* Two readers are inside together: a render and a slice, or two renders.
C14_Witness ==
    \E t, u \in Threads :
        /\ t # u
        /\ pc[t] = "fmt"
        /\ pc[u] \in {"fmt", "slice"}
        /\ heap[1].lock.readers = {t, u}
        /\ heap[1].lock.writer = 0

(***************************************************************************)
(* C15.  Every BenchResult in a registry, and every one copied into a      *)
(* view, holds a sample, so a render never calls average or percentile on  *)
(* an empty one: the divisor is not zero and the three indices lie within  *)
(* the list, also when every duration recorded is zero.                    *)
(***************************************************************************)
\* The calls Display for BenchResult makes on v are defined.
Renderable(v) ==
    /\ n(v) >= 1
    /\ \A p \in {50, 95, 99} : percentile_index(n(v), p) \in 1..n(v)

C15_NoEmptyStore ==
    /\ \A a \in DOMAIN heap : \A tag \in DOMAIN heap[a].data.h :
           Renderable(heap[a].data.h[tag])
    /\ \A t \in Threads : view[t] # None =>
           \A j \in 1..Len(view[t][1].slices) : Renderable(view[t][1].slices[j].v)
    /\ \A l \in Range(out.text) : l.what = "samples" => l.nums[1] >= 1

\* A full report of a tag with two samples, both of zero duration.
C15_Witness ==
    /\ out.of = "BenchMan"
    /\ Len(out.text) >= 4
    /\ out.text[2].nums = <<2>>
    /\ out.text[3].nums = <<0>>
    /\ out.text[4].nums = <<0, 0, 0>>

(***************************************************************************)
(* C16.  Reserving is idempotent and creates no entry: get_stopwatch for a *)
(* tag already reserved leaves tag_indices as it is, get_stopwatch never   *)
(* adds or changes an entry of h, and an entry comes into being only by    *)
(* the first recording of its tag.                                         *)
(***************************************************************************)
C16_ReserveIdempotent ==
    [][\A t \in Threads :
          /\ (pc[t] = "idle" /\ pc'[t] = "reserve") =>
                 \A a \in DOMAIN heap : heap'[a].data = heap[a].data
          /\ (pc[t] = "reserve" /\ pc'[t] = "idle") =>
                 LET a == bm[t][1].result_set
                     tag == arg[t].tag
                     before == heap[a].data
                     after == heap'[a].data
                 IN  /\ after.h = before.h
                     /\ NoRepeat(after.tag_indices)
                     /\ after.tag_indices =
                            (IF tag \in Range(before.tag_indices)
                             THEN before.tag_indices
                             ELSE Append(before.tag_indices, tag))
          /\ \A a \in DOMAIN heap :
                 DOMAIN heap'[a].data.h # DOMAIN heap[a].data.h =>
                     \E u \in Threads :
                         /\ pc[u] = "record" /\ pc'[u] = "idle"
                         /\ arg[u].tag \notin DOMAIN heap[a].data.h
                         /\ DOMAIN heap'[a].data.h = DOMAIN heap[a].data.h \cup {arg[u].tag}
                         /\ heap'[a].data.h[arg[u].tag].list = <<arg[u].du>>
      ]_vars

\* A tag has been reserved twice, by two stopwatches that are both alive: it is
\* in tag_indices once and there is no entry.
C16_Witness ==
    \E t, u \in Threads : \E i \in 1..Len(sw[t]) : \E j \in 1..Len(sw[u]) :
        /\ <<t, i>> # <<u, j>>
        /\ sw[t][i].issued = sw[u][j].issued
        /\ sw[t][i].tag # None /\ sw[u][j].tag # None
        /\ heap[1].data.tag_indices = <<sw[t][i].issued>>
        /\ DOMAIN heap[1].data.h = {}

(***************************************************************************)
(* C18.  The tags that have an entry in h are tags of tag_indices, since a *)
(* stopwatch exists only once get_stopwatch has reserved its tag; so the   *)
(* full report, which walks tag_indices, reaches every sample recorded.    *)
(***************************************************************************)
C18_StoredTagsReserved ==
    /\ \A a \in DOMAIN heap : DOMAIN heap[a].data.h \subseteq Range(heap[a].data.tag_indices)
    /\ \A t \in Threads : \A i \in 1..Len(sw[t]) :
           sw[t][i].issued \in Range(heap[sw[t][i].result_set].data.tag_indices)
    /\ out.of = "BenchMan" =>
           \A tag \in DOMAIN Data(out.by).h :
               \E l \in Range(out.text) :
                   /\ l.what = "samples" /\ l.tag = tag
                   /\ l.nums = <<Len(Data(out.by).h[tag].list)>>

\* A full report that reaches three samples under two tags.
C18_Witness ==
    /\ out.of = "BenchMan"
    /\ DOMAIN heap[1].data.h = Tags
    /\ CountIn(heap[1].data, "inner") + CountIn(heap[1].data, "outer") = 3
    /\ Range(ReportTags(out.text)) = Tags

(***************************************************************************)
(* C19.  A render and a slice each see one state of the registry: from the *)
(* read lock taken to the read lock released no drop changes the registry, *)
(* and the tags and counts shown or captured are those of that state.      *)
(***************************************************************************)
\* The count a text shows for a tag, 0 if it does not list the tag.
ShownCount(text, tag) ==
    LET ls == SelectSeq(text, LAMBDA l : l.what = "samples" /\ l.tag = tag)
    IN  IF ls = <<>> THEN 0 ELSE ls[1].nums[1]

\* The count a view holds for a tag, 0 if it does not hold the tag.
HeldCount(slices, tag) ==
    LET es == SelectSeq(slices, LAMBDA e : e.k = tag)
    IN  IF es = <<>> THEN 0 ELSE Len(es[1].v.list)

C19_SingleState ==
    [][\A t \in Threads :
          /\ pc[t] \in {"fmt", "slice"} =>
                 heap'[bm[t][1].result_set].data = heap[bm[t][1].result_set].data
          /\ (pc[t] = "idle" /\ pc'[t] \in {"fmt", "slice"}) =>
                 heap'[bm[t][1].result_set].data = heap[bm[t][1].result_set].data
          /\ (pc[t] = "fmt" /\ pc'[t] = "idle") =>
                 \A tag \in Tags : ShownCount(out'.text, tag) = CountIn(Data(t), tag)
          /\ SliceReturns(t) =>
                 \A tag \in Tags :
                     HeldCount(view'[t][1].slices, tag)
                         = (IF tag \in Range(arg[t].tags) THEN CountIn(Data(t), tag) ELSE 0)
      ]_vars

\* A full report of two tags written while another thread is between two drops:
\* it has dropped a stopwatch and holds one that is alive.
C19_Witness ==
    /\ out.of = "BenchMan"
    /\ Len(ReportTags(out.text)) = 2
    /\ \E u \in Threads \ {out.by} : \E i, j \in 1..Len(sw[u]) :
           IsDropped(u, i) /\ sw[u][j].tag # None

(***************************************************************************)
(* C17.  Once the lock is poisoned it stays poisoned, and every            *)
(* get_stopwatch, drop, slice and render that follows panics at unwrap():  *)
(* no thread enters the critical section, the registry is neither read nor *)
(* changed, no sample is recorded, and a render has written its label line *)
(* only, nothing of the registry.                                          *)
(***************************************************************************)
C17_PoisonIsFatal ==
    [][\A a \in DOMAIN heap : heap[a].lock.poisoned =>
          /\ heap'[a].lock.poisoned
          /\ heap'[a].data = heap[a].data
          /\ heap'[a].lock.writer = 0 /\ heap'[a].lock.readers = {}
          /\ \A t \in Threads :
                 /\ pc'[t] \notin {"reserve", "record", "slice", "fmt"}
                 /\ (pc[t] = "idle" /\ pc'[t] # "idle") => pc'[t] \in {"panicked", "aborted"}
                 /\ sw'[t] # sw[t] =>
                        /\ pc'[t] \in {"panicked", "aborted"}
                        /\ \A i \in 1..Len(sw[t]) : sw'[t][i].reported = <<>> \/ sw'[t][i] = sw[t][i]
          /\ out'.of = "BenchMan" => out'.text = <<Line("label", Label, <<>>, "blue")>>
      ]_vars

\* A writer has panicked and poisoned the lock, and the render of another thread
\* has panicked after its label line although the registry holds a sample.
C17_Witness ==
    /\ heap[1].lock.poisoned
    /\ out.of = "BenchMan"
    /\ DOMAIN heap[1].data.h # {}
    /\ \E t \in Threads \ {out.by} : pc[t] = "panicked"
    /\ pc[out.by] = "panicked"

(***************************************************************************)
(* C13.  No operation blocks forever.  As claimed, for any number of       *)
(* threads and under fair scheduling every get_stopwatch, drop, render and *)
(* slice that is called completes (C13_EveryCallReturns).  In the code a   *)
(* thread inside the critical section always leaves it, and a render or a  *)
(* slice always gets in, but a get_stopwatch or a drop gets in only if the *)
(* registry is free of readers again and again: renders of other threads   *)
(* that overlap without a gap keep the writer waiting (C13_NoDeadlock).    *)
(***************************************************************************)
Inside(t) == pc[t] \in {"reserve", "record", "slice", "fmt"}

WaitsWrite(t) == pc[t] \in {"get_stopwatch", "drop"}

WaitsRead(t) == pc[t] \in {"slice_call", "fmt_call"}

C13_EveryCallReturns ==
    \A t \in LiveThreads :
        (WaitsWrite(t) \/ WaitsRead(t) \/ Inside(t)) ~> (pc[t] \in {"idle", "sliced"})

C13_NoDeadlock ==
    /\ \A t \in LiveThreads : Inside(t) ~> (pc[t] \in {"idle", "sliced"})
    /\ \A t \in LiveThreads : WaitsRead(t) ~> Inside(t)
    /\ ([]<>(heap[1].lock.readers = {}))
           => \A t \in LiveThreads : WaitsWrite(t) ~> Inside(t)

\* A get_stopwatch waits for the write lock while the renders of two other
\* threads are inside together.
C13_Witness ==
    \E t, u, v \in LiveThreads :
        /\ pc[t] = "get_stopwatch"
        /\ u # v
        /\ pc[u] = "fmt" /\ pc[v] = "fmt"
        /\ heap[1].lock.readers = {u, v}

=============================================================================
